---- MODULE Spec2Model ----
(***************************************************************************)
(* A model of shrinkray's passes/genericlanguages.py: the format adapters  *)
(* (Substring, IntegerFormat), reduce_integer, normalize_identifiers and   *)
(* the region-parallel regex_pass.  Byte strings are sequences of byte     *)
(* values (ASCII codes), so that comparisons order them as Python does.    *)
(*                                                                         *)
(* Each component has its own specification over its own variables; the    *)
(* variables of the other components are pinned by that specification's    *)
(* initial predicate and never change.                                     *)
(***************************************************************************)
EXTENDS Integers, Sequences, FiniteSets, TLC

VARIABLES
    \* ---- format adapters (Substring, IntegerFormat) ----
    fmt,            \* the adapter: [kind, prefix, suffix]
    f_input,        \* the outer value handed to parse
    f_parsed,       \* [ok |-> TRUE, val |-> inner] or ParseError
    f_dumped,       \* dumps(parse(input)) once computed
    f_pc,           \* "start" | "parsed" | "dumped" | "rejected"
    \* ---- reduce_integer ----
    int_oracle,     \* the interestingness test of the integer session
    int_current,    \* problem.current_test_case of the integer session
    int_initial,    \* the value the pass started from (history)
    lo,             \* local lo
    hi,             \* local hi
    rejected,       \* values probed and found not interesting (history)
    accepted,       \* values probed and found interesting (history)
    ri_pc,          \* "start" | "loop" | "probe_hi" | "probe_lo" | "done"
    \* ---- normalize_identifiers ----
    ni_oracle,      \* the interestingness test of the session
    ni_current,     \* problem.current_test_case
    ni_initial,     \* the candidate the pass started from (history)
    identifiers,    \* local identifiers (a set of tokens)
    ni_replacements,\* local replacements, shortlex-sorted
    targets,        \* local targets, shortlex-sorted, largest first
    t_idx,          \* position of the for loop in targets
    source,         \* local source of the current iteration
    r_idx,          \* position of find_first_value in replacements
    proposals,      \* every [t, r, source, attempt] sent to the oracle (history)
    renamed,        \* every <<t, r>> the oracle accepted (history)
    ni_pc,          \* "start" | "target" | "search" | "done" | "failed"
    \* ---- regex_pass ----
    pattern,        \* the compiled pattern of the pass
    rx_oracle,      \* the interestingness test of the session
    current_test_case, \* problem.current_test_case
    scan_i,         \* local i of the region scan (a 0-based offset)
    matching_regions, \* the spans <<u, v>>, 0-based and half-open
    initial,        \* the pass-start candidate
    replacements,   \* one slot per region
    current_merge_attempts,
    parallel,       \* the regions whose sub-pass keeps many proposals in flight
    pc,             \* per region task: "idle" | "sleep" | "oracle" | "finished"
                    \*   | "failed" | "cancelled" | "parallel"
    prop_s,         \* per region task: the value s of the proposal in progress
    attempt,        \* per region task: local attempt
    is_merging,     \* per region task: local is_merging
    retries,        \* per region task: local retries
    pass_pc         \* "scan" | "run" | "returned" | "aborted"

varsFmt == <<fmt, f_input, f_parsed, f_dumped, f_pc>>

varsInt == <<int_oracle, int_current, int_initial, lo, hi, rejected, accepted, ri_pc>>

varsNorm == <<ni_oracle, ni_current, ni_initial, identifiers, ni_replacements,
              targets, t_idx, source, r_idx, proposals, renamed, ni_pc>>

varsRegex == <<pattern, rx_oracle, current_test_case, scan_i,
               matching_regions, initial, replacements, current_merge_attempts,
               parallel, pc, prop_s, attempt, is_merging, retries, pass_pc>>

vars == <<varsFmt, varsInt, varsNorm, varsRegex>>

\* What an action of one component leaves alone: the other components.
notFmt == <<varsInt, varsNorm, varsRegex>>
notInt == <<varsFmt, varsNorm, varsRegex>>
notNorm == <<varsFmt, varsInt, varsRegex>>
notRegex == <<varsFmt, varsInt, varsNorm>>

(***************************************************************************)
(* Bytes and byte strings                                                  *)
(***************************************************************************)
\* All sequences over S of length 0..n.
SeqsUpTo(S, n) == UNION {[1..k -> S] : k \in 0..n}

\* Python's x[a:b] for 0 <= a and 0 <= b <= len(x): empty when b <= a.
Slice(x, a, b) == IF b <= a THEN <<>> ELSE SubSeq(x, a + 1, b)

startswith(x, p) == Len(p) <= Len(x) /\ SubSeq(x, 1, Len(p)) = p

endswith(x, s) == Len(s) <= Len(x) /\ SubSeq(x, Len(x) - Len(s) + 1, Len(x)) = s

IsDigit(b) == b \in 48..57

IsLetter(b) == b \in 65..90 \/ b \in 97..122

\* \w of a bytes pattern: [a-zA-Z0-9_]
IsWord(b) == IsDigit(b) \/ IsLetter(b) \/ b = 95

\* The ASCII whitespace int() strips: \t \n \v \f \r and space.
IsSpace(b) == b \in 9..13 \/ b = 32

\* The exception a failed parse raises.
ParseError == [ok |-> FALSE]

Parsed(v) == [ok |-> TRUE, val |-> v]

(***************************************************************************)
(* A component that a specification does not run: its variables stay at    *)
(* these values.                                                           *)
(***************************************************************************)
IdleFmt ==
    /\ fmt = [kind |-> "none"]
    /\ f_input = <<>>
    /\ f_parsed = ParseError
    /\ f_dumped = <<>>
    /\ f_pc = "idle"

IdleInt ==
    /\ int_oracle = [kind |-> "none"]
    /\ int_current = 0
    /\ int_initial = 0
    /\ lo = 0
    /\ hi = 0
    /\ rejected = {}
    /\ accepted = {}
    /\ ri_pc = "idle"

IdleNorm ==
    /\ ni_oracle = [kind |-> "none"]
    /\ ni_current = <<>>
    /\ ni_initial = <<>>
    /\ identifiers = {}
    /\ ni_replacements = <<>>
    /\ targets = <<>>
    /\ t_idx = 0
    /\ source = <<>>
    /\ r_idx = 0
    /\ proposals = {}
    /\ renamed = {}
    /\ ni_pc = "idle"

IdleRegex ==
    /\ pattern = "none"
    /\ rx_oracle = [kind |-> "none"]
    /\ current_test_case = <<>>
    /\ scan_i = 0
    /\ matching_regions = <<>>
    /\ initial = <<>>
    /\ replacements = <<>>
    /\ current_merge_attempts = 0
    /\ parallel = {}
    /\ pc = <<>>
    /\ prop_s = <<>>
    /\ attempt = <<>>
    /\ is_merging = <<>>
    /\ retries = <<>>
    /\ pass_pc = "idle"

(***************************************************************************)
(* Substring(prefix, suffix)                                               *)
(***************************************************************************)
Substring_parse(prefix, suffix, input) ==
    IF startswith(input, prefix) /\ endswith(input, suffix)
    THEN Parsed(Slice(input, Len(prefix), Len(input) - Len(suffix)))
    ELSE ParseError

Substring_dumps(prefix, suffix, input) == prefix \o input \o suffix

(***************************************************************************)
(* IntegerFormat: int(input.decode("ascii")) and str(input).encode("ascii")*)
(***************************************************************************)
\* bytes.decode("ascii") raises UnicodeDecodeError on a byte >= 128.
IsAscii(x) == \A k \in 1..Len(x) : x[k] < 128

RECURSIVE lstrip(_)
lstrip(x) == IF x # <<>> /\ IsSpace(x[1]) THEN lstrip(Tail(x)) ELSE x

RECURSIVE rstrip(_)
rstrip(x) ==
    IF x # <<>> /\ IsSpace(x[Len(x)]) THEN rstrip(SubSeq(x, 1, Len(x) - 1)) ELSE x

\* The digit part int() accepts: digits, with single underscores between digits.
IsIntDigits(d) ==
    /\ d # <<>>
    /\ \A k \in 1..Len(d) : IsDigit(d[k]) \/ d[k] = 95
    /\ IsDigit(d[1]) /\ IsDigit(d[Len(d)])
    /\ \A k \in 1..(Len(d) - 1) : ~(d[k] = 95 /\ d[k + 1] = 95)

\* The base-10 value of a digit part, read left to right, underscores skipped.
RECURSIVE DigitsValue(_, _)
DigitsValue(d, acc) ==
    IF d = <<>> THEN acc
    ELSE IF d[1] = 95 THEN DigitsValue(Tail(d), acc)
    ELSE DigitsValue(Tail(d), acc * 10 + (d[1] - 48))

\* int(s) for an ASCII string: surrounding whitespace stripped, an optional
\* sign, then the digit part; anything else raises ValueError.
IntegerFormat_parse(input) ==
    IF ~IsAscii(input) THEN ParseError
    ELSE LET body == rstrip(lstrip(input))
             signed == body # <<>> /\ body[1] \in {43, 45}
             digits == IF signed THEN Tail(body) ELSE body
         IN  IF ~IsIntDigits(digits) THEN ParseError
             ELSE IF signed /\ body[1] = 45
                  THEN Parsed(0 - DigitsValue(digits, 0))
                  ELSE Parsed(DigitsValue(digits, 0))

\* The decimal digits of n >= 0, most significant first, no leading zeros.
RECURSIVE NatDigits(_)
NatDigits(n) ==
    IF n < 10 THEN <<48 + n>> ELSE Append(NatDigits(n \div 10), 48 + (n % 10))

\* Mutant of IntegerFormat_dumps: the sign of a negative value is lost.
IntegerFormat_dumps_unsigned(input) ==
    IF input < 0 THEN NatDigits(0 - input) ELSE NatDigits(input)

IntegerFormat_dumps(input) ==
    IF input < 0 THEN <<45>> \o NatDigits(0 - input) ELSE NatDigits(input)

(***************************************************************************)
(* reduce_integer against an integer session.  The session               *)
(* (BasicReductionProblem) is not part of this file: is_interesting(v)     *)
(* asks the oracle and, when the answer is yes, v becomes the session's    *)
(* current_test_case.                                                      *)
(***************************************************************************)
\* Bounds: set oracles and unreliable oracles range over 0..MaxInt, threshold
\* oracles over 0..MaxThresholdInt.
MaxInt == 6
MaxThresholdInt == 40

\* An oracle is a threshold (v >= t), an arbitrary fixed set of interesting
\* values, or a test whose answers may change from call to call.
Interesting(o, v) ==
    IF o.kind = "ge" THEN v >= o.t
    ELSE IF o.kind = "set" THEN v \in o.vals
    ELSE FALSE

\* The answers a call is_interesting(v) can return.
Answers(o, v) == IF o.kind = "flaky" THEN BOOLEAN ELSE {Interesting(o, v)}

\* The session's is_interesting(v) returning r: an accepted value becomes current.
IntSession_propose(v, r) ==
    /\ int_current' = IF r THEN v ELSE int_current
    /\ rejected' = IF r THEN rejected ELSE rejected \cup {v}
    /\ accepted' = IF r THEN accepted \cup {v} ELSE accepted

InitInt ==
    /\ IdleFmt
    /\ IdleNorm
    /\ IdleRegex
    /\ \/ /\ int_initial \in 0..MaxInt
          /\ int_oracle \in [kind : {"set"}, vals : SUBSET (0..MaxInt)]
          /\ int_initial \in int_oracle.vals
       \/ /\ int_initial \in 0..MaxThresholdInt
          /\ int_oracle \in [kind : {"ge"}, t : 0..MaxThresholdInt]
          /\ int_initial >= int_oracle.t
       \/ /\ int_initial = 1000
          /\ int_oracle = [kind |-> "ge", t |-> 42]
       \/ /\ int_initial \in 0..MaxInt
          /\ int_oracle = [kind |-> "flaky"]
    /\ int_current = int_initial
    /\ lo = 0
    /\ hi = 0
    /\ rejected = {}
    /\ accepted = {}
    /\ ri_pc = "start"

\* Lines 150-154: if 0 is interesting, return; otherwise lo = 0, hi = current.
ProbeZero ==
    /\ ri_pc = "start"
    /\ \E r \in Answers(int_oracle, 0) :
        /\ IntSession_propose(0, r)
        /\ ri_pc' = IF r THEN "done" ELSE "loop"
        /\ lo' = 0
        /\ hi' = IF r THEN hi ELSE int_current
    /\ UNCHANGED <<int_oracle, int_initial>>
    /\ UNCHANGED notInt

\* Line 156: the loop ends when lo + 1 < hi fails.
LoopExit ==
    /\ ri_pc = "loop"
    /\ ~(lo + 1 < hi)
    /\ ri_pc' = "done"
    /\ UNCHANGED <<int_oracle, int_current, int_initial, lo, hi, rejected, accepted>>
    /\ UNCHANGED notInt

\* Mutant of ProbeMid: an uninteresting mid moves lo past mid.
ProbeMid_past ==
    /\ ri_pc = "loop"
    /\ lo + 1 < hi
    /\ LET mid == (lo + hi) \div 2
       IN  \E r \in Answers(int_oracle, mid) :
            /\ IntSession_propose(mid, r)
            /\ hi' = IF r THEN mid ELSE hi
            /\ lo' = IF r THEN lo ELSE mid + 1
    /\ ri_pc' = "probe_hi"
    /\ UNCHANGED <<int_oracle, int_initial>>
    /\ UNCHANGED notInt

\* Mutant of ProbeMid: the probe is lo itself, not the midpoint.
ProbeMid_low ==
    /\ ri_pc = "loop"
    /\ lo + 1 < hi
    /\ LET mid == lo
       IN  \E r \in Answers(int_oracle, mid) :
            /\ IntSession_propose(mid, r)
            /\ hi' = IF r THEN mid ELSE hi
            /\ lo' = IF r THEN lo ELSE mid
    /\ ri_pc' = "probe_hi"
    /\ UNCHANGED <<int_oracle, int_initial>>
    /\ UNCHANGED notInt

\* Lines 157-161: probe mid; hi = mid if interesting, else lo = mid.
ProbeMid ==
    /\ ri_pc = "loop"
    /\ lo + 1 < hi
    /\ LET mid == (lo + hi) \div 2
       IN  \E r \in Answers(int_oracle, mid) :
            /\ IntSession_propose(mid, r)
            /\ hi' = IF r THEN mid ELSE hi
            /\ lo' = IF r THEN lo ELSE mid
    /\ ri_pc' = "probe_hi"
    /\ UNCHANGED <<int_oracle, int_initial>>
    /\ UNCHANGED notInt

\* Mutant of ProbeHi: hi is decremented without asking the oracle.
ProbeHi_blind ==
    /\ ri_pc = "probe_hi"
    /\ hi' = hi - 1
    /\ ri_pc' = "probe_lo"
    /\ UNCHANGED <<int_oracle, int_current, int_initial, lo, rejected, accepted>>
    /\ UNCHANGED notInt

\* Lines 163-164: probe hi - 1; hi -= 1 if interesting.
ProbeHi ==
    /\ ri_pc = "probe_hi"
    /\ \E r \in Answers(int_oracle, hi - 1) :
        /\ IntSession_propose(hi - 1, r)
        /\ hi' = IF r THEN hi - 1 ELSE hi
    /\ ri_pc' = "probe_lo"
    /\ UNCHANGED <<int_oracle, int_initial, lo>>
    /\ UNCHANGED notInt

\* Mutant of ProbeLo: lo is incremented without asking the oracle.
ProbeLo_blind ==
    /\ ri_pc = "probe_lo"
    /\ lo' = lo + 1
    /\ ri_pc' = "loop"
    /\ UNCHANGED <<int_oracle, int_current, int_initial, hi, rejected, accepted>>
    /\ UNCHANGED notInt

\* Lines 166-169: probe lo + 1; return if interesting, else lo += 1.
ProbeLo ==
    /\ ri_pc = "probe_lo"
    /\ \E r \in Answers(int_oracle, lo + 1) :
        /\ IntSession_propose(lo + 1, r)
        /\ lo' = IF r THEN lo ELSE lo + 1
        /\ ri_pc' = IF r THEN "done" ELSE "loop"
    /\ UNCHANGED <<int_oracle, int_initial, hi>>
    /\ UNCHANGED notInt

NextInt == ProbeZero \/ LoopExit \/ ProbeMid \/ ProbeHi \/ ProbeLo

SpecInt == InitInt /\ [][NextInt]_vars

\* Every oracle call returns: a step of reduce_integer that can be taken is
\* taken.
SpecIntLive == SpecInt /\ WF_vars(NextInt)

(***************************************************************************)
(* normalize_identifiers.  The session and work.find_first_value are not   *)
(* part of this file: the session accepts what its oracle finds            *)
(* interesting, and find_first_value calls the predicate on the values in  *)
(* the order given and returns the first for which it holds (NotFound if   *)
(* none does).                                                             *)
(***************************************************************************)
\* Bound of the candidates, and their bytes: a, A, 1 and space.
MaxSourceLen == 5

NormBytes == {97, 65, 49, 32}

ascii_lowercase == 97..122
ascii_uppercase == 65..90

\* Python's order of two byte strings.
BytesLess(a, b) ==
    \/ \E k \in 1..Len(a) :
        /\ k <= Len(b)
        /\ SubSeq(a, 1, k - 1) = SubSeq(b, 1, k - 1)
        /\ a[k] < b[k]
    \/ Len(a) < Len(b) /\ SubSeq(b, 1, Len(a)) = a

\* shortlex(r) < shortlex(t), the keys being the tuples (len(s), s).
shortlex_less(r, t) == Len(r) < Len(t) \/ (Len(r) = Len(t) /\ BytesLess(r, t))

\* sorted(S, key=shortlex)
RECURSIVE SortedShortlex(_)
SortedShortlex(S) ==
    IF S = {} THEN <<>>
    ELSE LET m == CHOOSE x \in S : \A y \in S \ {x} : shortlex_less(x, y)
         IN  <<m>> \o SortedShortlex(S \ {m})

Reverse(q) == [k \in 1..Len(q) |-> q[Len(q) + 1 - k]]

\* \b at position p of c: between c[p-1] and c[p] (1-based, p in 1..Len(c)+1).
WordBoundary(c, p) ==
    (p > 1 /\ IsWord(c[p - 1])) # (p <= Len(c) /\ IsWord(c[p]))

\* The last position of the run of bytes satisfying the class that starts at p.
RECURSIVE RunEnd(_, _, _)
RunEnd(c, p, digitsOnly) ==
    IF /\ p < Len(c)
       /\ IF digitsOnly THEN IsDigit(c[p + 1]) ELSE IsWord(c[p + 1])
    THEN RunEnd(c, p + 1, digitsOnly)
    ELSE p

\* {m.group(0) for m in IDENTIFIER.finditer(c)}, scanning from position p:
\* (\b[A-Za-z][A-Za-z0-9_]*\b)|([0-9]+)
RECURSIVE FindIdentifiers(_, _)
FindIdentifiers(c, p) ==
    IF p > Len(c) THEN {}
    ELSE IF WordBoundary(c, p) /\ IsLetter(c[p])
    THEN LET e == RunEnd(c, p, FALSE)
         IN  {SubSeq(c, p, e)} \cup FindIdentifiers(c, e + 1)
    ELSE IF IsDigit(c[p])
    THEN LET e == RunEnd(c, p, TRUE)
         IN  {SubSeq(c, p, e)} \cup FindIdentifiers(c, e + 1)
    ELSE FindIdentifiers(c, p + 1)

\* \b t \b matches at position p of c.
MatchesAt(c, t, p) ==
    /\ p + Len(t) - 1 <= Len(c)
    /\ SubSeq(c, p, p + Len(t) - 1) = t
    /\ WordBoundary(c, p)
    /\ WordBoundary(c, p + Len(t))

\* pattern.search(c) for pattern = \b t \b
PatternSearch(c, t) == \E p \in 1..Len(c) : MatchesAt(c, t, p)

\* pattern.sub(r, c) from position p on: every match replaced, left to right.
RECURSIVE PatternSub(_, _, _, _)
PatternSub(c, t, r, p) ==
    IF p > Len(c) THEN <<>>
    ELSE IF MatchesAt(c, t, p) THEN r \o PatternSub(c, t, r, p + Len(t))
    ELSE <<c[p]>> \o PatternSub(c, t, r, p + 1)

\* Lines 230-235, for one char_type: the first letter not in R is added.
WithFirstUnused(R, char_type) ==
    LET unused == {cc \in char_type : <<cc>> \notin R}
    IN  IF unused = {} THEN R
        ELSE R \cup {<<CHOOSE cc \in unused : \A dd \in unused : cc <= dd>>}

\* Mutant of can_replace_skips: only the lengths are compared.
can_replace_skips_longer(r, t) == Len(r) > Len(t)

\* Line 248: can_replace(r) returns False when shortlex(r) >= shortlex(t).
can_replace_skips(r, t) == ~shortlex_less(r, t)

\* Mutant of ReplacementPool: no fresh letter is added to the pool.
ReplacementPool_tokens_only(ids) == ids

\* Lines 228-235: the identifiers, one fresh lowercase and one fresh uppercase letter.
ReplacementPool(ids) ==
    WithFirstUnused(WithFirstUnused(ids, ascii_lowercase), ascii_uppercase)

\* The oracle of the session: a fixed predicate on candidates.  "distinct"
\* requires as many different identifiers as the initial candidate has.
NormInteresting(o, c) ==
    IF o.kind = "all" THEN TRUE
    ELSE IF o.kind = "distinct"
    THEN Cardinality(FindIdentifiers(c, 1)) >= o.n
    ELSE FALSE

InitNorm ==
    /\ IdleFmt
    /\ IdleInt
    /\ IdleRegex
    /\ ni_initial \in SeqsUpTo(NormBytes, MaxSourceLen)
    /\ ni_oracle \in {[kind |-> "all"], [kind |-> "reject"],
                      [kind |-> "distinct",
                       n |-> Cardinality(FindIdentifiers(ni_initial, 1))]}
    /\ ni_current = ni_initial
    /\ identifiers = {}
    /\ ni_replacements = <<>>
    /\ targets = <<>>
    /\ t_idx = 0
    /\ source = <<>>
    /\ r_idx = 0
    /\ proposals = {}
    /\ renamed = {}
    /\ ni_pc = "start"

\* Lines 227-238.
NormStart ==
    /\ ni_pc = "start"
    /\ LET ids == FindIdentifiers(ni_current, 1)
       IN  /\ identifiers' = ids
           /\ ni_replacements' = SortedShortlex(ReplacementPool(ids))
           /\ targets' = Reverse(SortedShortlex(ids))
    /\ t_idx' = 1
    /\ ni_pc' = "target"
    /\ UNCHANGED <<ni_oracle, ni_current, ni_initial, source, r_idx, proposals, renamed>>
    /\ UNCHANGED notNorm

\* Line 241, the loop is over.
NormDone ==
    /\ ni_pc = "target"
    /\ t_idx > Len(targets)
    /\ ni_pc' = "done"
    /\ UNCHANGED <<ni_oracle, ni_current, ni_initial, identifiers, ni_replacements,
                   targets, t_idx, source, r_idx, proposals, renamed>>
    /\ UNCHANGED notNorm

\* Lines 241-245: the target no longer occurs in the candidate.
NormSkip ==
    /\ ni_pc = "target"
    /\ t_idx <= Len(targets)
    /\ ~PatternSearch(ni_current, targets[t_idx])
    /\ source' = ni_current
    /\ t_idx' = t_idx + 1
    /\ UNCHANGED <<ni_oracle, ni_current, ni_initial, identifiers, ni_replacements,
                   targets, r_idx, proposals, renamed, ni_pc>>
    /\ UNCHANGED notNorm

\* Lines 241-255: the target occurs; find_first_value starts on replacements.
NormSearch ==
    /\ ni_pc = "target"
    /\ t_idx <= Len(targets)
    /\ PatternSearch(ni_current, targets[t_idx])
    /\ source' = ni_current
    /\ r_idx' = 1
    /\ ni_pc' = "search"
    /\ UNCHANGED <<ni_oracle, ni_current, ni_initial, identifiers, ni_replacements,
                   targets, t_idx, proposals, renamed>>
    /\ UNCHANGED notNorm

\* Lines 248-249: can_replace(r) returns False without asking the oracle.
NormReject ==
    /\ ni_pc = "search"
    /\ r_idx <= Len(ni_replacements)
    /\ can_replace_skips(ni_replacements[r_idx], targets[t_idx])
    /\ r_idx' = r_idx + 1
    /\ UNCHANGED <<ni_oracle, ni_current, ni_initial, identifiers, ni_replacements,
                   targets, t_idx, source, proposals, renamed, ni_pc>>
    /\ UNCHANGED notNorm

\* Lines 250-252: the attempt is sent to the oracle; if it is interesting it
\* becomes the candidate and find_first_value returns, else the search goes on.
NormPropose ==
    /\ ni_pc = "search"
    /\ r_idx <= Len(ni_replacements)
    /\ ~can_replace_skips(ni_replacements[r_idx], targets[t_idx])
    /\ LET t == targets[t_idx]
           r == ni_replacements[r_idx]
           ni_attempt == PatternSub(source, t, r, 1)
       IN  IF ni_attempt = source
           THEN \* assert attempt != source
                /\ ni_pc' = "failed"
                /\ UNCHANGED <<ni_current, t_idx, r_idx, proposals, renamed>>
           ELSE /\ proposals' = proposals \cup
                        {[t |-> t, r |-> r, source |-> source, attempt |-> ni_attempt]}
                /\ IF NormInteresting(ni_oracle, ni_attempt)
                   THEN /\ ni_current' = ni_attempt
                        /\ renamed' = renamed \cup {<<t, r>>}
                        /\ t_idx' = t_idx + 1
                        /\ ni_pc' = "target"
                        /\ UNCHANGED r_idx
                   ELSE /\ r_idx' = r_idx + 1
                        /\ UNCHANGED <<ni_current, renamed, t_idx, ni_pc>>
    /\ UNCHANGED <<ni_oracle, ni_initial, identifiers, ni_replacements, targets, source>>
    /\ UNCHANGED notNorm

\* Lines 256-257: find_first_value raised NotFound; the target is left alone.
NormNotFound ==
    /\ ni_pc = "search"
    /\ r_idx > Len(ni_replacements)
    /\ t_idx' = t_idx + 1
    /\ ni_pc' = "target"
    /\ UNCHANGED <<ni_oracle, ni_current, ni_initial, identifiers, ni_replacements,
                   targets, source, r_idx, proposals, renamed>>
    /\ UNCHANGED notNorm

NextNorm ==
    NormStart \/ NormDone \/ NormSkip \/ NormSearch \/ NormReject \/ NormPropose
        \/ NormNotFound

SpecNorm == InitNorm /\ [][NextNorm]_vars

(***************************************************************************)
(* regex_pass: the region scan, the replacement slots and one task per     *)
(* region.  A region task runs the sub-pass fn against a session whose     *)
(* is_interesting(s) is the closure of lines 96-130.  The sub-pass is an   *)
(* input: it proposes values one at a time (as every sub-pass of this file *)
(* does) and returns when it chooses to.  The session of the pass          *)
(* (problem) is not part of this file: its is_interesting(c) asks the      *)
(* oracle and, when the answer is yes, c becomes current_test_case.        *)
(* Tasks switch only at the awaits: the sleep of line 110 and the oracle   *)
(* call of line 113.                                                       *)
(***************************************************************************)
\* Bound of the pass-start candidate; its bytes are 1 and space, and a
\* sub-pass proposes the values b"" and b"1".
MaxCandidateLen == 4

RegexBytes == {49, 32}

\* Bound of the list of regions the scan is followed to.
MaxRegions == 3

ProposalValues == {<<>>, <<49>>}

\* Line 126: assert retries <= 100
RetryCap == 100

\* search is None
NoMatch == <<>>

\* The patterns of the pass: runs of digits, non-empty or possibly empty.
Patterns == {"[0-9]+", "[0-9]*"}

\* pattern.search(c, i).span(), as a 0-based half-open span.  For [0-9]+ it
\* is the leftmost run of digits at or after offset i, None without one; for
\* [0-9]* it is the run of digits at offset i itself, empty when the byte at
\* i is not a digit.
Search(pat, c, i) ==
    LET starts == {p \in i..(Len(c) - 1) : IsDigit(c[p + 1])}
    IN  IF pat = "[0-9]*"
        THEN IF i \in starts THEN <<i, RunEnd(c, i + 1, TRUE)>> ELSE <<i, i>>
        ELSE IF starts = {} THEN NoMatch
        ELSE LET u == CHOOSE p \in starts : \A q \in starts : p <= q
             IN  <<u, RunEnd(c, u + 1, TRUE)>>

\* Lines 56-65 run to the end: the regions of c from offset i on.
RECURSIVE RegionsFrom(_, _, _)
RegionsFrom(pat, c, i) ==
    IF i < Len(c) /\ Search(pat, c, i) # NoMatch
    THEN <<Search(pat, c, i)>> \o RegionsFrom(pat, c, Search(pat, c, i)[2])
    ELSE <<>>

\* Lines 74-90, from region j on, prev being the end of the region before:
\* the bytes between the regions come from initial, region i gives s and
\* every other region gives its slot in repl.
RECURSIVE ReplaceFrom(_, _, _, _, _)
ReplaceFrom(repl, j, prev, i, s) ==
    IF j > Len(matching_regions) THEN Slice(initial, prev, Len(initial))
    ELSE Slice(initial, prev, matching_regions[j][1])
            \o (IF j # i THEN repl[j] ELSE s)
            \o ReplaceFrom(repl, j + 1, matching_regions[j][2], i, s)

\* replace(i, s) over the current slots.
replace(i, s) == ReplaceFrom(replacements, 1, 0, i, s)

\* The oracle of the session: a fixed predicate on candidates.
RxInteresting(o, c) == IF o.kind = "len_ge" THEN Len(c) >= o.n ELSE FALSE

\* Mutant of RxSession_propose: the candidate becomes current whatever the answer.
RxSession_propose_always(c, r) ==
    current_test_case' = c

\* The session's is_interesting(c) returning r: an accepted candidate becomes current.
RxSession_propose(c, r) ==
    current_test_case' = IF r THEN c ELSE current_test_case

Regions == 1..Len(matching_regions)

\* The region tasks started in the nursery.
Tasks == DOMAIN pc

\* No task has raised: the nursery has not been cancelled.
NoFailure == \A k \in Tasks : pc[k] # "failed"

\* The state at the call of reduction_pass(problem).
InitRegex ==
    /\ pattern \in Patterns
    /\ current_test_case \in SeqsUpTo(RegexBytes, MaxCandidateLen)
    /\ rx_oracle \in [kind : {"len_ge"}, n : 0..MaxCandidateLen]
    /\ RxInteresting(rx_oracle, current_test_case)
    /\ scan_i = 0
    /\ matching_regions = <<>>
    /\ initial = <<>>
    /\ replacements = <<>>
    /\ current_merge_attempts = 0
    /\ pc = <<>>
    /\ prop_s = <<>>
    /\ attempt = <<>>
    /\ is_merging = <<>>
    /\ retries = <<>>
    /\ pass_pc = "scan"

\* Every sub-pass proposes one value at a time.
Init ==
    /\ IdleFmt
    /\ IdleInt
    /\ IdleNorm
    /\ InitRegex
    /\ parallel = {}

\* Any sub-pass: the sub-passes of the regions in parallel keep any number of
\* proposals in flight at once.  The pattern matches non-empty runs.
InitCap ==
    /\ IdleFmt
    /\ IdleInt
    /\ IdleNorm
    /\ InitRegex
    /\ pattern = "[0-9]+"
    /\ parallel \in SUBSET (1..Len(RegionsFrom(pattern, current_test_case, 0)))

\* Mutant of ScanResume: the scan resumes one byte after the start of the match.
ScanResume_inside(span) == span[1] + 1

\* Lines 62 and 65: u, v = search.span(); i = v
ScanResume(span) == span[2]

\* Lines 57-65: one iteration of the scan that finds a match.  (The list is
\* followed up to MaxRegions entries.)
ScanStep ==
    /\ pass_pc = "scan"
    /\ Len(matching_regions) < MaxRegions
    /\ scan_i < Len(current_test_case)
    /\ Search(pattern, current_test_case, scan_i) # NoMatch
    /\ matching_regions' =
            Append(matching_regions, Search(pattern, current_test_case, scan_i))
    /\ scan_i' = ScanResume(Search(pattern, current_test_case, scan_i))
    /\ UNCHANGED <<pattern, rx_oracle, current_test_case, initial,
                   replacements, current_merge_attempts, parallel, pc, prop_s,
                   attempt, is_merging, retries, pass_pc>>
    /\ UNCHANGED notRegex

\* The scan is over: the loop condition fails or search is None.
ScanOver ==
    /\ pass_pc = "scan"
    /\ \/ ~(scan_i < Len(current_test_case))
       \/ Search(pattern, current_test_case, scan_i) = NoMatch

\* Lines 67-68: no region, the pass returns.
ReturnNoRegions ==
    /\ ScanOver
    /\ matching_regions = <<>>
    /\ pass_pc' = "returned"
    /\ UNCHANGED <<pattern, rx_oracle, current_test_case, scan_i,
                   matching_regions, initial, replacements, current_merge_attempts,
                   parallel, pc, prop_s, attempt, is_merging, retries>>
    /\ UNCHANGED notRegex

\* Lines 70-72, 92-93, 139-140: the snapshot, the slots, the counter, and one
\* task per region started in the nursery.
StartTasks ==
    /\ ScanOver
    /\ matching_regions # <<>>
    /\ initial' = current_test_case
    /\ replacements' =
            [k \in Regions |->
                Slice(current_test_case, matching_regions[k][1], matching_regions[k][2])]
    /\ current_merge_attempts' = 0
    /\ pc' = [k \in Regions |-> IF k \in parallel THEN "parallel" ELSE "idle"]
    /\ prop_s' = [k \in Regions |-> <<>>]
    /\ attempt' = [k \in Regions |-> <<>>]
    /\ is_merging' = [k \in Regions |-> FALSE]
    /\ retries' = [k \in Regions |-> 0]
    /\ pass_pc' = "run"
    /\ UNCHANGED <<pattern, rx_oracle, current_test_case, scan_i,
                   matching_regions, parallel>>
    /\ UNCHANGED notRegex

\* The proposal of task k is over (it returned or raised): its locals are gone.
EndProposal(k, next_pc) ==
    /\ pc' = [pc EXCEPT ![k] = next_pc]
    /\ prop_s' = [prop_s EXCEPT ![k] = <<>>]
    /\ attempt' = [attempt EXCEPT ![k] = <<>>]
    /\ is_merging' = [is_merging EXCEPT ![k] = FALSE]
    /\ retries' = [retries EXCEPT ![k] = 0]

\* Mutant of Finally: the counter is left as it is.
Finally_keeps(k, merging, counter) == counter

\* Lines 127-130: the finally clause of task k's proposal.
Finally(k, merging, counter) == IF merging THEN counter - 1 ELSE counter

\* Mutant of Propose: the oracle call starts whatever the counter.
Propose_unthrottled(k, v) ==
    /\ pass_pc = "run"
    /\ NoFailure
    /\ pc[k] = "idle"
    /\ prop_s' = [prop_s EXCEPT ![k] = v]
    /\ pc' = [pc EXCEPT ![k] = "oracle"]
    /\ attempt' = [attempt EXCEPT ![k] = replace(k, v)]
    /\ UNCHANGED <<pattern, rx_oracle, current_test_case, scan_i,
                   matching_regions, initial, replacements, current_merge_attempts,
                   parallel, is_merging, retries, pass_pc>>
    /\ UNCHANGED notRegex

\* The sub-pass of region k calls is_interesting(v), lines 96-113: with a merge
\* in flight it sleeps (line 110), otherwise it computes attempt and calls
\* the oracle.
Propose(k, v) ==
    /\ pass_pc = "run"
    /\ NoFailure
    /\ pc[k] = "idle"
    /\ prop_s' = [prop_s EXCEPT ![k] = v]
    /\ IF current_merge_attempts > 0
       THEN /\ pc' = [pc EXCEPT ![k] = "sleep"]
            /\ UNCHANGED attempt
       ELSE /\ pc' = [pc EXCEPT ![k] = "oracle"]
            /\ attempt' = [attempt EXCEPT ![k] = replace(k, v)]
    /\ UNCHANGED <<pattern, rx_oracle, current_test_case, scan_i,
                   matching_regions, initial, replacements, current_merge_attempts,
                   parallel, is_merging, retries, pass_pc>>
    /\ UNCHANGED notRegex

\* Mutant of Wake: the task goes on only once the counter is below 0.
Wake_below(k) ==
    /\ pass_pc = "run"
    /\ NoFailure
    /\ pc[k] = "sleep"
    /\ current_merge_attempts < 0
    /\ pc' = [pc EXCEPT ![k] = "oracle"]
    /\ attempt' = [attempt EXCEPT ![k] = replace(k, prop_s[k])]
    /\ UNCHANGED <<pattern, rx_oracle, current_test_case, scan_i,
                   matching_regions, initial, replacements, current_merge_attempts,
                   parallel, prop_s, is_merging, retries, pass_pc>>
    /\ UNCHANGED notRegex

\* Mutant of Wake: the task goes on after one sleep whatever the counter.
Wake_eager(k) ==
    /\ pass_pc = "run"
    /\ NoFailure
    /\ pc[k] = "sleep"
    /\ pc' = [pc EXCEPT ![k] = "oracle"]
    /\ attempt' = [attempt EXCEPT ![k] = replace(k, prop_s[k])]
    /\ UNCHANGED <<pattern, rx_oracle, current_test_case, scan_i,
                   matching_regions, initial, replacements, current_merge_attempts,
                   parallel, prop_s, is_merging, retries, pass_pc>>
    /\ UNCHANGED notRegex

\* Lines 109-113: the sleep returns with no merge in flight; attempt is
\* computed and the oracle called.  (With a merge in flight the task sleeps
\* again, which changes nothing.)
Wake(k) ==
    /\ pass_pc = "run"
    /\ NoFailure
    /\ pc[k] = "sleep"
    /\ ~(~is_merging[k] /\ current_merge_attempts > 0)
    /\ pc' = [pc EXCEPT ![k] = "oracle"]
    /\ attempt' = [attempt EXCEPT ![k] = replace(k, prop_s[k])]
    /\ UNCHANGED <<pattern, rx_oracle, current_test_case, scan_i,
                   matching_regions, initial, replacements, current_merge_attempts,
                   parallel, prop_s, is_merging, retries, pass_pc>>
    /\ UNCHANGED notRegex

\* Mutant of OracleReject: the rejected value is stored in the slot all the same.
OracleReject_stores(k) ==
    /\ pass_pc = "run"
    /\ NoFailure
    /\ pc[k] = "oracle"
    /\ ~RxInteresting(rx_oracle, attempt[k])
    /\ RxSession_propose(attempt[k], FALSE)
    /\ replacements' = [replacements EXCEPT ![k] = prop_s[k]]
    /\ current_merge_attempts' = Finally(k, is_merging[k], current_merge_attempts)
    /\ EndProposal(k, "idle")
    /\ UNCHANGED <<pattern, rx_oracle, scan_i, matching_regions, initial,
                   parallel, pass_pc>>
    /\ UNCHANGED notRegex

\* Lines 113-114 and the finally clause: the oracle rejects attempt; False.
OracleReject(k) ==
    /\ pass_pc = "run"
    /\ NoFailure
    /\ pc[k] = "oracle"
    /\ ~RxInteresting(rx_oracle, attempt[k])
    /\ RxSession_propose(attempt[k], FALSE)
    /\ current_merge_attempts' = Finally(k, is_merging[k], current_merge_attempts)
    /\ EndProposal(k, "idle")
    /\ UNCHANGED <<pattern, rx_oracle, scan_i, matching_regions, initial,
                   replacements, parallel, pass_pc>>
    /\ UNCHANGED notRegex

\* Mutant of OracleCommit: the slot is set without the recheck of line 115.
OracleCommit_unchecked(k) ==
    /\ pass_pc = "run"
    /\ NoFailure
    /\ pc[k] = "oracle"
    /\ RxInteresting(rx_oracle, attempt[k])
    /\ RxSession_propose(attempt[k], TRUE)
    /\ replacements' = [replacements EXCEPT ![k] = prop_s[k]]
    /\ current_merge_attempts' = Finally(k, is_merging[k], current_merge_attempts)
    /\ EndProposal(k, "idle")
    /\ UNCHANGED <<pattern, rx_oracle, scan_i, matching_regions, initial,
                   parallel, pass_pc>>
    /\ UNCHANGED notRegex

\* Lines 113-117 and the finally clause: the oracle accepts attempt and the
\* recheck finds replace(i, s) unchanged; the slot is set; True.
OracleCommit(k) ==
    /\ pass_pc = "run"
    /\ NoFailure
    /\ pc[k] = "oracle"
    /\ RxInteresting(rx_oracle, attempt[k])
    /\ replace(k, prop_s[k]) = attempt[k]
    /\ RxSession_propose(attempt[k], TRUE)
    /\ replacements' = [replacements EXCEPT ![k] = prop_s[k]]
    /\ current_merge_attempts' = Finally(k, is_merging[k], current_merge_attempts)
    /\ EndProposal(k, "idle")
    /\ UNCHANGED <<pattern, rx_oracle, scan_i, matching_regions, initial,
                   parallel, pass_pc>>
    /\ UNCHANGED notRegex

\* Mutant of RetryAssert: the assertion already fails at the cap.
RetryAssert_strict(r) == r < RetryCap

\* Line 126: assert retries <= 100
RetryAssert(r) == r <= RetryCap

\* Lines 113-126: the oracle accepts attempt but the recheck differs.  The
\* task flags itself as merging and counts a retry; past the cap the
\* assertion fails and the finally clause runs, otherwise the loop computes
\* a fresh attempt and calls the oracle again.
OracleConflict(k) ==
    /\ pass_pc = "run"
    /\ NoFailure
    /\ pc[k] = "oracle"
    /\ RxInteresting(rx_oracle, attempt[k])
    /\ replace(k, prop_s[k]) # attempt[k]
    /\ RxSession_propose(attempt[k], TRUE)
    /\ LET counter == IF is_merging[k] THEN current_merge_attempts
                      ELSE current_merge_attempts + 1
       IN  IF RetryAssert(retries[k] + 1)
           THEN /\ is_merging' = [is_merging EXCEPT ![k] = TRUE]
                /\ current_merge_attempts' = counter
                /\ retries' = [retries EXCEPT ![k] = retries[k] + 1]
                /\ attempt' = [attempt EXCEPT ![k] = replace(k, prop_s[k])]
                /\ UNCHANGED <<pc, prop_s>>
           ELSE /\ current_merge_attempts' = Finally(k, TRUE, counter)
                /\ EndProposal(k, "failed")
    /\ UNCHANGED <<pattern, rx_oracle, scan_i, matching_regions, initial,
                   replacements, parallel, pass_pc>>
    /\ UNCHANGED notRegex

\* The sub-pass of region k returns: the task is over.
Finish(k) ==
    /\ pass_pc = "run"
    /\ NoFailure
    /\ pc[k] = "idle"
    /\ pc' = [pc EXCEPT ![k] = "finished"]
    /\ UNCHANGED <<pattern, rx_oracle, current_test_case, scan_i,
                   matching_regions, initial, replacements, current_merge_attempts,
                   parallel, prop_s, attempt, is_merging, retries, pass_pc>>
    /\ UNCHANGED notRegex

\* Mutant of PassReturn: the block ends as soon as one task has finished.
PassReturn_first ==
    /\ pass_pc = "run"
    /\ \E k \in Regions : pc[k] = "finished"
    /\ pass_pc' = "returned"
    /\ UNCHANGED <<pattern, rx_oracle, current_test_case, scan_i,
                   matching_regions, initial, replacements, current_merge_attempts,
                   parallel, pc, prop_s, attempt, is_merging, retries>>
    /\ UNCHANGED notRegex

\* Line 92: the nursery block ends once every task has finished.
PassReturn ==
    /\ pass_pc = "run"
    /\ \A k \in Regions : pc[k] = "finished"
    /\ pass_pc' = "returned"
    /\ UNCHANGED <<pattern, rx_oracle, current_test_case, scan_i,
                   matching_regions, initial, replacements, current_merge_attempts,
                   parallel, pc, prop_s, attempt, is_merging, retries>>
    /\ UNCHANGED notRegex

\* A proposal of a sub-pass that keeps many in flight commits value v, lines
\* 112-117: its attempt, computed over the slots as they are, was accepted.
ParallelCommit(k, v) ==
    /\ pass_pc = "run"
    /\ NoFailure
    /\ pc[k] = "parallel"
    /\ RxInteresting(rx_oracle, replace(k, v))
    /\ RxSession_propose(replace(k, v), TRUE)
    /\ replacements' = [replacements EXCEPT ![k] = v]
    /\ UNCHANGED <<pattern, rx_oracle, scan_i, matching_regions, initial,
                   current_merge_attempts, parallel, pc, prop_s, attempt,
                   is_merging, retries, pass_pc>>
    /\ UNCHANGED notRegex

\* A sub-pass that keeps many proposals in flight returns, all of them over.
ParallelFinish(k) ==
    /\ pass_pc = "run"
    /\ NoFailure
    /\ pc[k] = "parallel"
    /\ pc' = [pc EXCEPT ![k] = "finished"]
    /\ UNCHANGED <<pattern, rx_oracle, current_test_case, scan_i,
                   matching_regions, initial, replacements, current_merge_attempts,
                   parallel, prop_s, attempt, is_merging, retries, pass_pc>>
    /\ UNCHANGED notRegex

\* A task has raised: the nursery cancels task k at its await, and the
\* finally clause of its proposal runs.
Cancel(k) ==
    /\ pass_pc = "run"
    /\ ~NoFailure
    /\ pc[k] \in {"idle", "sleep", "oracle", "parallel"}
    /\ current_merge_attempts' = Finally(k, is_merging[k], current_merge_attempts)
    /\ EndProposal(k, "cancelled")
    /\ UNCHANGED <<pattern, rx_oracle, current_test_case, scan_i,
                   matching_regions, initial, replacements, parallel, pass_pc>>
    /\ UNCHANGED notRegex

\* Line 92: every task is over and one has raised; the nursery re-raises.
PassAbort ==
    /\ pass_pc = "run"
    /\ ~NoFailure
    /\ \A k \in Regions : pc[k] \in {"failed", "cancelled", "finished"}
    /\ pass_pc' = "aborted"
    /\ UNCHANGED <<pattern, rx_oracle, current_test_case, scan_i,
                   matching_regions, initial, replacements, current_merge_attempts,
                   parallel, pc, prop_s, attempt, is_merging, retries>>
    /\ UNCHANGED notRegex

Next ==
    \/ ScanStep
    \/ ReturnNoRegions
    \/ StartTasks
    \/ \E k \in Regions : \E v \in ProposalValues : Propose(k, v)
    \/ \E k \in Regions : Wake(k)
    \/ \E k \in Regions : OracleReject(k)
    \/ \E k \in Regions : OracleCommit(k)
    \/ \E k \in Regions : OracleConflict(k)
    \/ \E k \in Regions : Finish(k)
    \/ PassReturn

Spec == Init /\ [][Next]_vars

\* The steps of region task k that end an await: the sleep of line 110 and
\* the oracle call of line 113.
TaskStep(k) ==
    /\ k \in Tasks
    /\ Wake(k) \/ OracleReject(k) \/ OracleCommit(k) \/ OracleConflict(k)

\* Every oracle call returns and scheduling is fair: a step of the pass or of
\* a task that stays possible is taken; and every sub-pass issues finitely
\* many proposals: a sub-pass that is between proposals again and again
\* returns.
SpecLive ==
    /\ Spec
    /\ WF_vars(ScanStep \/ ReturnNoRegions \/ StartTasks \/ PassReturn)
    /\ \A k \in 1..MaxRegions : WF_vars(TaskStep(k))
    /\ \A k \in 1..MaxRegions : SF_vars(k \in Tasks /\ Finish(k))

NextCap ==
    \/ Next
    \/ \E k \in Regions : \E v \in ProposalValues : ParallelCommit(k, v)
    \/ \E k \in Regions : ParallelFinish(k)
    \/ \E k \in Regions : Cancel(k)
    \/ PassAbort

SpecCap == InitCap /\ [][NextCap]_vars

(***************************************************************************)
(* The adapters as a state machine: parse the input, then dump the result. *)
(***************************************************************************)
\* Bounds of the inputs.
MaxAffixLen == 2
MaxInputLen == 3

SubstringBytes == {97, 98}
IntegerBytes == {48, 49, 43, 45, 32, 95, 97, 200}

Format_parse(f, input) ==
    IF f.kind = "Substring" THEN Substring_parse(f.prefix, f.suffix, input)
    ELSE IntegerFormat_parse(input)

Format_dumps(f, inner) ==
    IF f.kind = "Substring" THEN Substring_dumps(f.prefix, f.suffix, inner)
    ELSE IntegerFormat_dumps(inner)

InitFmt ==
    /\ IdleInt
    /\ IdleNorm
    /\ IdleRegex
    /\ \/ /\ fmt \in [kind : {"Substring"},
                      prefix : SeqsUpTo(SubstringBytes, MaxAffixLen),
                      suffix : SeqsUpTo(SubstringBytes, MaxAffixLen)]
          /\ f_input \in SeqsUpTo(SubstringBytes, MaxInputLen)
       \/ /\ fmt = [kind |-> "IntegerFormat"]
          /\ f_input \in SeqsUpTo(IntegerBytes, MaxInputLen)
    /\ f_parsed = ParseError
    /\ f_dumped = <<>>
    /\ f_pc = "start"

\* parse(input) returns the inner value.
ParseOk ==
    /\ UNCHANGED notFmt
    /\ f_pc = "start"
    /\ Format_parse(fmt, f_input).ok
    /\ f_parsed' = Format_parse(fmt, f_input)
    /\ f_pc' = "parsed"
    /\ UNCHANGED <<fmt, f_input, f_dumped>>

\* parse(input) raises ParseError.
ParseFail ==
    /\ UNCHANGED notFmt
    /\ f_pc = "start"
    /\ ~Format_parse(fmt, f_input).ok
    /\ f_parsed' = ParseError
    /\ f_pc' = "rejected"
    /\ UNCHANGED <<fmt, f_input, f_dumped>>

\* dumps(parse(input)).
Dump ==
    /\ UNCHANGED notFmt
    /\ f_pc = "parsed"
    /\ f_dumped' = Format_dumps(fmt, f_parsed.val)
    /\ f_pc' = "dumped"
    /\ UNCHANGED <<fmt, f_input, f_parsed>>

NextFmt == ParseOk \/ ParseFail \/ Dump

SpecFormat == InitFmt /\ [][NextFmt]_vars

(***************************************************************************)
(* Claims about reduce_integer (SpecInt)                                   *)
(***************************************************************************)
FixedOracle == int_oracle.kind \in {"ge", "set"}

\* C3: against the oracle "v is interesting iff v >= t", started from any
\* n >= t, reduce_integer ends with the session's current value exactly t.
C3_ThresholdFound ==
    (int_oracle.kind = "ge" /\ ri_pc = "done") => int_current = int_oracle.t

\* A run from n well above a threshold t > 0 has ended, after halving steps.
C3_Witness ==
    /\ int_oracle.kind = "ge"
    /\ ri_pc = "done"
    /\ int_oracle.t > 1
    /\ int_initial > 2 * int_oracle.t
    /\ Cardinality(accepted) > 1

\* C4: for a fixed oracle under which the initial value is interesting, hi
\* (and the session's value) never exceeds the initial value, the pass is
\* never stuck short of returning, and the final value is 0 or a value v
\* whose predecessor v - 1 was probed and found not interesting.
C4_NonGrowth ==
    FixedOracle =>
        /\ hi <= int_initial
        /\ int_current <= int_initial
        /\ ri_pc # "done" => ENABLED NextInt
        /\ ri_pc = "done" =>
            \/ int_current = 0
            \/ int_current - 1 \in rejected

\* A run against a non-monotone oracle has returned early from the lo + 1
\* probe with a value above 0, below a larger interesting value.
C4_Witness ==
    /\ int_oracle.kind = "set"
    /\ ri_pc = "done"
    /\ int_current > 0
    /\ int_current < hi
    /\ \E v \in int_oracle.vals, w \in 0..MaxInt :
        v < w /\ w < int_initial /\ w \notin int_oracle.vals

(***************************************************************************)
(* Claims about the format adapters (SpecFormat)                           *)
(***************************************************************************)
\* C5: Substring: if x starts with the prefix and ends with the suffix then
\* parse(x) succeeds and dumps(parse(x)) = x, also when prefix and suffix
\* overlap inside x; otherwise parse(x) fails with ParseError.
C5_SubstringRoundTrip ==
    fmt.kind = "Substring" =>
        IF startswith(f_input, fmt.prefix) /\ endswith(f_input, fmt.suffix)
        THEN /\ f_pc # "rejected"
             /\ f_pc = "dumped" => f_dumped = f_input
        ELSE f_pc \notin {"parsed", "dumped"}

\* The canonical decimal form: an optional minus sign and digits without a
\* leading zero, "-0" excluded.
IsCanonicalInt(x) ==
    /\ x # <<>>
    /\ LET d == IF x[1] = 45 THEN Tail(x) ELSE x
       IN  /\ d # <<>>
           /\ \A k \in 1..Len(d) : IsDigit(d[k])
           /\ Len(d) = 1 \/ d[1] # 48
           /\ ~(x[1] = 45 /\ d = <<48>>)

\* x without its leading zeros, one digit kept.
RECURSIVE StripZeros(_)
StripZeros(x) == IF Len(x) > 1 /\ x[1] = 48 THEN StripZeros(Tail(x)) ELSE x

IsDigits(x) == x # <<>> /\ \A k \in 1..Len(x) : IsDigit(x[k])

\* C6 as stated: IntegerFormat: dumps(parse(outer)) = outer for every outer
\* that parse accepts, digit sequences with leading zeros included.
C6_RoundTrip ==
    (fmt.kind = "IntegerFormat" /\ f_pc = "dumped") => f_dumped = f_input

\* C6 amended: every non-empty digit sequence parses, and dumps(parse(outer))
\* is outer without its leading zeros; for every outer that parses,
\* dumps(parse(outer)) = outer exactly when outer is in canonical form.
C6_Canonical ==
    fmt.kind = "IntegerFormat" =>
        /\ IsDigits(f_input) => f_pc # "rejected"
        /\ f_pc = "dumped" =>
            /\ IsDigits(f_input) => f_dumped = StripZeros(f_input)
            /\ (f_dumped = f_input) <=> IsCanonicalInt(f_input)

\* A digit sequence with a leading zero has been parsed and dumped.
C6_Witness ==
    /\ fmt.kind = "IntegerFormat"
    /\ f_pc = "dumped"
    /\ IsDigits(f_input)
    /\ Len(f_input) > 1
    /\ f_input[1] = 48

(***************************************************************************)
(* Claims about normalize_identifiers (SpecNorm)                           *)
(***************************************************************************)
\* r is shorter than t, or as long and smaller at the first byte they differ in.
StrictlyShortlexSmaller(r, t) ==
    \/ Len(r) < Len(t)
    \/ /\ Len(r) = Len(t)
       /\ \E k \in 1..Len(t) :
            /\ \A j \in 1..(k - 1) : r[j] = t[j]
            /\ r[k] < t[k]

\* C7: a candidate that substitutes r for t is sent to the oracle only if r
\* is strictly shortlex-smaller than t, so no token is ever replaced by a
\* value that is not strictly shortlex-smaller, whatever the oracle.
C7_ShortlexOrdering ==
    /\ \A p \in proposals : StrictlyShortlexSmaller(p.r, p.t)
    /\ \A p \in renamed : StrictlyShortlexSmaller(p[2], p[1])
    /\ ni_pc # "failed"

\* A pass has ended after sending a replacement as long as its token, and
\* after a pool element that is not smaller than a token was passed over.
C7_Witness ==
    /\ ni_pc = "done"
    /\ \E p \in proposals : Len(p.r) = Len(p.t)
    /\ \E t \in identifiers : \E p \in proposals :
        p.t # t /\ PatternSearch(ni_initial, t) /\ ~StrictlyShortlexSmaller(p.r, t)

\* The candidate's identifiers are two distinct whole words of two bytes or more.
TwoLongIdentifiers(c) ==
    LET ids == FindIdentifiers(c, 1)
    IN  /\ Cardinality(ids) = 2
        /\ \A t \in ids : Len(t) >= 2 /\ PatternSearch(c, t)

IsSingleLetter(r) == Len(r) = 1 /\ IsLetter(r[1])

InitialSlot(k) == Slice(initial, matching_regions[k][1], matching_regions[k][2])

\* C1: while the region tasks run and after the pass returns, the candidate
\* assembled from the pass-start bytes between the regions and the current
\* slots, replace(i, replacements[i]) for every i, is the session's current
\* candidate.
C1_Reconstruction ==
    pass_pc \in {"run", "returned"} =>
        \A i \in Regions : replace(i, replacements[i]) = current_test_case

\* C2: with an interesting pass-start candidate and a fixed oracle, the
\* session's current candidate satisfies the oracle in every state, after
\* the pass has ended in particular, and it only ever changes to a candidate
\* the oracle accepts, for any sub-pass and any interleaving.
C2_Soundness ==
    /\ [](RxInteresting(rx_oracle, current_test_case))
    /\ [][current_test_case' # current_test_case =>
            RxInteresting(rx_oracle, current_test_case')]_vars

\* The pass has returned over two regions, one of them with a sub-pass that
\* keeps many proposals in flight, and the session's candidate has changed.
C2_Witness ==
    /\ pass_pc = "returned"
    /\ Len(matching_regions) = 2
    /\ parallel # {}
    /\ current_test_case # initial

\* The next oracle return of task k is the failed recheck number RetryCap + 1.
AtRetryCap(k) ==
    /\ pc[k] = "oracle"
    /\ retries[k] = RetryCap
    /\ RxInteresting(rx_oracle, attempt[k])
    /\ replace(k, prop_s[k]) # attempt[k]

\* C8: a proposal never counts more than 100 failed rechecks; the failed
\* recheck after the 100th ends the proposal in the fatal error, not in a
\* returned true or false, leaving slot i as it was and taking the
\* proposal's share off the merge-attempt counter; and the fatal error has
\* no other cause.
C8_RetryCapFatal ==
    [][\A k \in Tasks :
          /\ retries'[k] <= RetryCap
          /\ (AtRetryCap(k) /\ <<pc[k], retries[k], attempt[k]>>' # <<pc[k], retries[k], attempt[k]>>)
                => /\ pc'[k] = "failed"
                   /\ replacements'[k] = replacements[k]
                   /\ current_merge_attempts' = current_merge_attempts - 1
          /\ (pc'[k] = "failed" /\ pc[k] # "failed") => AtRetryCap(k)]_vars

\* A proposal has ended in the fatal error and the counter is back at 0.
C8_Witness ==
    \E k \in Tasks : pc[k] = "failed" /\ current_merge_attempts = 0

\* C9: the pass returns only when every region task has finished, and a
\* region task is cancelled only after a task has raised the fatal error,
\* never because a sibling's proposal was accepted or rejected.
C9_AwaitsAllTasks ==
    /\ pass_pc = "returned" => \A k \in Tasks : pc[k] = "finished"
    /\ \A k \in Tasks : pc[k] = "cancelled" => ~NoFailure

\* The pass has returned over two regions: the first committed a value, the
\* second kept its bytes and still ran to its end.
C9_Witness ==
    /\ pass_pc = "returned"
    /\ Len(matching_regions) = 2
    /\ replacements[1] # InitialSlot(1)
    /\ replacements[2] = InitialSlot(2)
    /\ \A k \in Tasks : pc[k] = "finished"

\* The candidate assembled from the slots repl.
Assembled(repl) == ReplaceFrom(repl, 1, 0, 0, <<>>)

\* C11: while the tasks run, slot i changes to s only in a step of task i
\* whose attempt the oracle accepts and equals replace(i, s) over the slots
\* of that step; so the candidate assembled from the slots is always the
\* pass-start candidate or a candidate the oracle accepts.
C11_CommitValidated ==
    /\ [](pass_pc \in {"run", "returned"} /\ matching_regions # <<>> =>
            \/ Assembled(replacements) = initial
            \/ RxInteresting(rx_oracle, Assembled(replacements)))
    /\ [][pass_pc = "run" =>
            \A i \in Tasks :
                replacements'[i] # replacements[i] =>
                    /\ pc[i] = "oracle"
                    /\ RxInteresting(rx_oracle, attempt[i])
                    /\ attempt[i] = replace(i, replacements'[i])
                    /\ Assembled(replacements') = attempt[i]]_vars

\* Both regions have committed a value, the second over the slot the first
\* had already changed.
C11_Witness ==
    /\ pass_pc = "run"
    /\ Len(matching_regions) = 2
    /\ replacements[1] # InitialSlot(1)
    /\ replacements[2] # InitialSlot(2)

\* The step is the commit of task i's proposal: the oracle accepts its
\* attempt, the recheck agrees and the proposal returns.
CommitStep(i) ==
    /\ pc[i] = "oracle"
    /\ RxInteresting(rx_oracle, attempt[i])
    /\ replace(i, prop_s[i]) = attempt[i]
    /\ pc'[i] = "idle"

\* C12: while the tasks run, the slots change only in the commit step of one
\* task i, and then only slot i changes, to the proposed s; a rejected
\* proposal, a failed recheck, a retry and a wait on the counter leave every
\* slot as it was.
C12_SlotFrame ==
    [][pass_pc = "run" /\ replacements' # replacements =>
          \E i \in Tasks :
              /\ CommitStep(i)
              /\ replacements' = [replacements EXCEPT ![i] = prop_s[i]]]_vars

\* Task k has had a failed recheck and retries, another task waits on the
\* counter, and both slots still hold what the steps before left there.
C12_Witness ==
    /\ pass_pc = "run"
    /\ \E k \in Tasks : \E j \in Tasks :
          /\ retries[k] >= 1
          /\ replacements[k] = InitialSlot(k)
          /\ pc[j] = "sleep"

\* The tasks whose proposal in progress has flagged itself as merging.
Merging == {k \in Tasks : is_merging[k]}

\* No proposal is in progress.
NoProposal == \A k \in Tasks : pc[k] \in {"idle", "finished"}

\* C13: the merge-attempt counter is never negative and is the number of
\* proposals in progress that have flagged themselves as merging; it is 0
\* when no proposal is in progress and when the pass has returned; a step
\* adds at most one to it, and only as a proposal sets its flag.
C13_CounterMeaning ==
    /\ [](/\ current_merge_attempts >= 0
          /\ current_merge_attempts = Cardinality(Merging)
          /\ NoProposal => current_merge_attempts = 0
          /\ pass_pc = "returned" => current_merge_attempts = 0)
    /\ [][current_merge_attempts' > current_merge_attempts =>
            /\ current_merge_attempts' = current_merge_attempts + 1
            /\ \E k \in Tasks : ~is_merging[k] /\ is_merging'[k]]_vars

\* A proposal has flagged itself and is counted.
C13_Witness ==
    /\ current_merge_attempts = 1
    /\ \E k \in Tasks : is_merging[k] /\ retries[k] >= 1

\* Task k starts the oracle call of a fresh attempt in this step.
FreshStart(k) == pc[k] \in {"idle", "sleep"} /\ pc'[k] = "oracle"

\* Task k starts the oracle call of a retry in this step.
RetryStart(k) == pc[k] = "oracle" /\ pc'[k] = "oracle" /\ retries'[k] = retries[k] + 1

\* C14: the oracle call of a fresh attempt starts only with the counter at
\* 0, and a task waits only while it is not merging and the counter was
\* above 0 when it looked; a merging task is never waiting, and its retry
\* starts with its own flag counted, for the same proposed value s.
C14_Throttle ==
    /\ [](\A k \in Tasks : is_merging[k] => pc[k] = "oracle")
    /\ [][\A k \in Tasks :
            /\ FreshStart(k) => current_merge_attempts = 0 /\ ~is_merging[k]
            /\ pc'[k] = "sleep" /\ pc[k] # "sleep" => current_merge_attempts > 0
            /\ RetryStart(k) =>
                  /\ current_merge_attempts' > 0
                  /\ is_merging'[k]
                  /\ prop_s'[k] = prop_s[k]
                  /\ attempt'[k] = replace(k, prop_s[k])]_vars

\* A merging task is in the oracle call of its retry while a sibling waits
\* on the counter.
C14_Witness ==
    \E k \in Tasks : \E j \in Tasks :
        /\ is_merging[k]
        /\ pc[k] = "oracle"
        /\ attempt[k] = replace(k, prop_s[k])
        /\ current_merge_attempts > 0
        /\ pc[j] = "sleep"

\* C15: the regions are sorted ascending and do not overlap, each inside the
\* scanned candidate: 0 <= u_k <= v_k <= u_k+1 <= v_k+1 <= len(candidate);
\* and once the tasks are started the list never changes.
C15_RegionsOrdered ==
    /\ [](/\ \A k \in Regions :
                /\ 0 <= matching_regions[k][1]
                /\ matching_regions[k][1] <= matching_regions[k][2]
                /\ matching_regions[k][2] <=
                        Len(IF pass_pc = "scan" THEN current_test_case ELSE initial)
          /\ \A k \in Regions :
                k + 1 \in Regions => matching_regions[k][2] <= matching_regions[k + 1][1])
    /\ [][pass_pc # "scan" => matching_regions' = matching_regions]_vars

\* Two regions have been found, the tasks run, and a slot has changed.
C15_Witness ==
    /\ pass_pc = "run"
    /\ Len(matching_regions) = 2
    /\ matching_regions[1][2] < matching_regions[2][1]
    /\ replacements[2] # InitialSlot(2)

(***************************************************************************)
(* Further claims about reduce_integer                                     *)
(***************************************************************************)
\* C16: for a fixed oracle under which the initial value is interesting and
\* 0 is not, at the head of the loop (the start of an iteration and the end
\* of the one before) and at the return out of the loop, lo < hi, lo is 0
\* or a probed value found not interesting, and hi is the initial value or
\* a probed value found interesting.
C16_LoopInvariant ==
    (FixedOracle /\ ~Interesting(int_oracle, 0) /\ ri_pc \in {"loop", "done"}) =>
        /\ lo < hi
        /\ lo = 0 \/ lo \in rejected
        /\ ~Interesting(int_oracle, lo)
        /\ hi = int_initial \/ hi \in accepted
        /\ Interesting(int_oracle, hi)

\* A second iteration is about to start: both bounds have moved.
C16_Witness ==
    /\ FixedOracle
    /\ ~Interesting(int_oracle, 0)
    /\ ri_pc = "loop"
    /\ lo + 1 < hi
    /\ 0 < lo
    /\ hi < int_initial

\* The control is inside the loop of lines 156-169.
InLoop == ri_pc \in {"loop", "probe_hi", "probe_lo"}

\* C17: for every initial value and every oracle whose calls return, one
\* whose answers change between calls included, reduce_integer returns; no
\* step of the loop increases hi - lo and the probe of mid strictly
\* decreases it, so every iteration that does not return decreases it; and
\* the loop is left without a return exactly when hi - lo <= 1.
C17_Terminates ==
    /\ <>(ri_pc = "done")
    /\ [][InLoop =>
            /\ hi' - lo' <= hi - lo
            /\ ri_pc = "loop" /\ ri_pc' = "probe_hi" => hi' - lo' < hi - lo
            /\ ri_pc = "loop" => (ri_pc' = "done" <=> hi - lo <= 1)]_vars

\* The run is over under an oracle whose answers change between calls, after
\* the loop has moved lo past hi.
C17_Witness ==
    /\ int_oracle.kind = "flaky"
    /\ ri_pc = "done"
    /\ hi < lo

(***************************************************************************)
(* Further claims about regex_pass                                         *)
(***************************************************************************)
\* The region tasks that are not over.
Unfinished == {k \in Tasks : pc[k] # "finished"}

\* Task k waits on the counter: it sleeps and the loop condition of line 109
\* still holds.
Blocked(k) == pc[k] = "sleep" /\ ~is_merging[k] /\ current_merge_attempts > 0

\* C18: with oracle calls that return, fair scheduling and sub-passes that
\* issue finitely many proposals one at a time, there is no state in which
\* every unfinished task waits on the counter, every task that waits on the
\* counter goes on, and once the tasks are started the pass returns.
C18_Progress ==
    /\ [](Unfinished # {} => \E k \in Unfinished : ~Blocked(k))
    /\ \A k \in 1..MaxRegions :
          (k \in Tasks /\ pc[k] = "sleep") ~> (k \in Tasks /\ pc[k] = "oracle")
    /\ (pass_pc = "run") ~> (pass_pc = "returned")

\* A task waits on the counter while its sibling, which has changed the
\* session's candidate, is in the oracle call of a retry.
C18_Witness ==
    \E j \in Tasks : \E k \in Tasks :
        /\ pc[j] = "sleep"
        /\ pc[k] = "oracle"
        /\ retries[k] >= 1
        /\ current_test_case # initial

\* C19: with sub-passes that issue one proposal at a time, the retry count of
\* a proposal never exceeds the number of regions n, under every
\* interleaving of the oracle returns, and no proposal ends in the retry-cap
\* assertion.
C19_RetriesBounded ==
    \A k \in Tasks :
        /\ retries[k] <= Len(matching_regions)
        /\ pc[k] # "failed"

\* The bound is met among two regions: a proposal is in its second retry, the
\* sibling having committed once before the first failed recheck and once
\* more, from a proposal already in flight, before the second.
C19_Witness ==
    /\ Len(matching_regions) = 2
    /\ \E k \in Tasks : pc[k] = "oracle" /\ retries[k] = 2

\* C20: every iteration of the region scan that appends a region strictly
\* advances the scan position i, for every pattern and every candidate,
\* also when the match found is empty.
C20_ScanAdvances ==
    [][pass_pc = "scan" /\ Len(matching_regions') > Len(matching_regions) =>
          scan_i' > scan_i]_vars

====
